---- MODULE Spec2Model ----
(***************************************************************************)
(* The V2 bind bytecode matcher (src/devices/lib/bind/src/match_bind.rs):  *)
(* DeviceMatcher walks the instruction bytes of a DecodedProgram with one  *)
(* byte iterator and decides whether the device properties match.          *)
(*                                                                         *)
(* The V1 encoder (src/devices/bind/debugger/src/encode_bind_program_v1.rs)*)
(* packs every instruction of a bind program into a RawInstruction of      *)
(* three u32 words and writes the records as bytes and as text.            *)
(***************************************************************************)
EXTENDS Integers, Sequences, FiniteSets, TLC

VARIABLES
    instructions,   \* DecodedProgram.instructions: the V2 byte stream
    symbol_table,   \* DeviceMatcher.symbol_table: HashMap<u32, String>
    properties,     \* DeviceMatcher.properties: HashMap<PropertyKey, Symbol>
    iter,           \* DeviceMatcher.iter: number of bytes the iterator has yielded
    pc,             \* position of match_bind: "loop", "key", "value", "done"
    op_byte,        \* the byte last read in opcode position (-1: none yet)
    condition,      \* Condition of the instruction being evaluated
    property_key,   \* the projected key of the instruction being evaluated
    result,         \* what match_bind returned (Running until it returns)
    bind_program,   \* BindProgram.instructions, each as its InstructionInfo
    records,        \* the RawInstructions encode_to_bytecode_v1 has produced
    bytecode,       \* the Vec<u8> encode_to_bytecode_v1 has collected
    triples,        \* the RawInstructions encode_to_string_v1 has produced
    text,           \* the String encode_to_string_v1 has collected
    packed,         \* a RawInstruction its setters are called on
    peer            \* a second DeviceMatcher over the same program and symbol table

matcher_vars == <<instructions, symbol_table, properties, iter, pc, op_byte, condition,
                  property_key, result>>

encoder_vars == <<bind_program, records, bytecode, triples, text>>

vars == <<matcher_vars, encoder_vars, packed, peer>>

-----------------------------------------------------------------------------
(* Bounds of the model.                                                    *)

\* Longest stream of whole instructions that is enumerated.
MaxInstrs == 2

-----------------------------------------------------------------------------
(* RawOp and RawValueType (bind_program_v2_constants).                     *)

EqualCondition == 1
InequalCondition == 2
Abort == 48

\* The jump and landing-pad opcodes: recognized by RawOp, ignored by match_bind.
JumpOps == {16, 17, 18, 32}

RawOp == {EqualCondition, InequalCondition, Abort} \cup JumpOps

\* RawValueType: NumberValue = 0, Key, StringValue, BoolValue, EnumValue.
RawValueType == [NumberValue |-> 0, Key |-> 1, StringValue |-> 2, BoolValue |-> 3,
                 EnumValue |-> 4]

RawValueTypeBytes == {RawValueType.NumberValue, RawValueType.Key, RawValueType.StringValue,
                      RawValueType.BoolValue, RawValueType.EnumValue}

-----------------------------------------------------------------------------
(* Symbol (compiler::Symbol), PropertyKey and the results.  Every record   *)
(* of a kind has the same fields so that any two of them can be compared.  *)

\* A u64 number is kept as its two u32 halves: num the low one, high the high one.
NumberValue64(high, n) ==
    [tag |-> "NumberValue", num |-> n, str |-> "", bool |-> FALSE, vt |-> "-", high |-> high]
\* Symbol::NumberValue(n as u64) of a u32 n
NumberValue(n) == NumberValue64(0, n)
StringValue(s) == [tag |-> "StringValue", num |-> 0, str |-> s, bool |-> FALSE, vt |-> "-"]
Key(s, t) == [tag |-> "Key", num |-> 0, str |-> s, bool |-> FALSE, vt |-> t]
BoolValue(b) == [tag |-> "BoolValue", num |-> 0, str |-> "", bool |-> b, vt |-> "-"]
EnumValue == [tag |-> "EnumValue", num |-> 0, str |-> "", bool |-> FALSE, vt |-> "-"]

NumberKey64(high, n) == [kind |-> "NumberKey", num |-> n, str |-> "", high |-> high]
NumberKey(n) == NumberKey64(0, n)
StringKey(s) == [kind |-> "StringKey", num |-> 0, str |-> s, high |-> 0]
NoKey == [kind |-> "-", num |-> 0, str |-> "", high |-> 0]

Running == [kind |-> "Running", ok |-> FALSE, err |-> "-", arg |-> 0]
Ok(b) == [kind |-> "Ok", ok |-> b, err |-> "-", arg |-> 0]
Err(e, a) == [kind |-> "Err", ok |-> FALSE, err |-> e, arg |-> a]
\* unimplemented!() unwinds out of match_bind: no Result is returned.
Panic == [kind |-> "Panic", ok |-> FALSE, err |-> "unimplemented", arg |-> 0]

\* DeviceMatcher::new as a value: the fields of a matcher over the device
\* properties props and the position of its match_bind.
DeviceMatcher(props) ==
    [properties |-> props, iter |-> 0, pc |-> "loop", op_byte |-> -1, condition |-> "-",
     property_key |-> NoKey, result |-> Running]

\* No second matcher was constructed.
NoMatcher == [DeviceMatcher(<< >>) EXCEPT !.pc = "none"]

-----------------------------------------------------------------------------
(* Byte-level helpers.                                                     *)

\* u32::to_le_bytes, as append_encoded_value writes an operand's value.
to_le_bytes(v) ==
    << v % 256, (v \div 256) % 256, (v \div 65536) % 256, (v \div 16777216) % 256 >>

\* [value_type as u8] ++ value.to_le_bytes()
append_encoded_value(value_type, value) == <<value_type>> \o to_le_bytes(value)

append_equal_cond(k, v) ==
    <<EqualCondition>> \o append_encoded_value(k[1], k[2]) \o append_encoded_value(v[1], v[2])

append_inequal_cond(k, v) ==
    <<InequalCondition>> \o append_encoded_value(k[1], k[2]) \o append_encoded_value(v[1], v[2])

\* u32::from_le_bytes on the four bytes after position pos.
u32_from_le_bytes(bytes, pos) ==
    bytes[pos + 1] + 256 * bytes[pos + 2] + 65536 * bytes[pos + 3] + 16777216 * bytes[pos + 4]

\* next_u8 (bytecode_common): the next byte of the iterator, or UnexpectedEnd.
next_u8(bytes, pos) ==
    IF pos < Len(bytes)
    THEN [ok |-> TRUE, val |-> bytes[pos + 1], pos |-> pos + 1]
    ELSE [ok |-> FALSE, val |-> 0, pos |-> Len(bytes)]

\* next_u32 (bytecode_common): the next four bytes, little-endian, or
\* UnexpectedEnd with the iterator drained.
next_u32(bytes, pos) ==
    IF pos + 4 <= Len(bytes)
    THEN [ok |-> TRUE, val |-> u32_from_le_bytes(bytes, pos), pos |-> pos + 4]
    ELSE [ok |-> FALSE, val |-> 0, pos |-> Len(bytes)]

-----------------------------------------------------------------------------
(* DeviceMatcher.                                                          *)

\* Mutant: a missing index reads as the empty string instead of an error.
lookup_symbol_table_or_default(symtab, key) ==
    IF key \in DOMAIN symtab
    THEN [ok |-> TRUE, str |-> symtab[key], err |-> Running]
    ELSE [ok |-> TRUE, str |-> "", err |-> Running]

\* lookup_symbol_table: the string of a symbol index, or MissingEntryInSymbolTable.
lookup_symbol_table(symtab, key) ==
    IF key \in DOMAIN symtab
    THEN [ok |-> TRUE, str |-> symtab[key], err |-> Running]
    ELSE [ok |-> FALSE, str |-> "", err |-> Err("MissingEntryInSymbolTable", key)]

\* What read_next_value hands back: a Symbol or an error, and the iterator after it.
ReadOk(sym, pos) == [ok |-> TRUE, sym |-> sym, err |-> Running, pos |-> pos]
ReadErr(e, pos) == [ok |-> FALSE, sym |-> EnumValue, err |-> e, pos |-> pos]

\* Mutant: the raw value of an enum operand is looked up in the symbol table.
materialize_enum_looked_up(symtab, value_type, value, pos) ==
    CASE value_type = RawValueType.NumberValue -> ReadOk(NumberValue(value), pos)
      [] value_type = RawValueType.Key ->
            LET s == lookup_symbol_table(symtab, value)
            IN  IF s.ok THEN ReadOk(Key(s.str, "Str"), pos) ELSE ReadErr(s.err, pos)
      [] value_type = RawValueType.StringValue ->
            LET s == lookup_symbol_table(symtab, value)
            IN  IF s.ok THEN ReadOk(StringValue(s.str), pos) ELSE ReadErr(s.err, pos)
      [] value_type = RawValueType.BoolValue ->
            CASE value = 0 -> ReadOk(BoolValue(FALSE), pos)
              [] value = 1 -> ReadOk(BoolValue(TRUE), pos)
              [] OTHER -> ReadErr(Err("InvalidBoolValue", value), pos)
      [] value_type = RawValueType.EnumValue ->
            LET s == lookup_symbol_table(symtab, value)
            IN  IF s.ok THEN ReadOk(EnumValue, pos) ELSE ReadErr(s.err, pos)

\* Mutant: the two bool values are swapped.
materialize_bool_inverted(symtab, value_type, value, pos) ==
    CASE value_type = RawValueType.NumberValue -> ReadOk(NumberValue(value), pos)
      [] value_type = RawValueType.Key ->
            LET s == lookup_symbol_table(symtab, value)
            IN  IF s.ok THEN ReadOk(Key(s.str, "Str"), pos) ELSE ReadErr(s.err, pos)
      [] value_type = RawValueType.StringValue ->
            LET s == lookup_symbol_table(symtab, value)
            IN  IF s.ok THEN ReadOk(StringValue(s.str), pos) ELSE ReadErr(s.err, pos)
      [] value_type = RawValueType.BoolValue ->
            CASE value = 0 -> ReadOk(BoolValue(TRUE), pos)
              [] value = 1 -> ReadOk(BoolValue(FALSE), pos)
              [] OTHER -> ReadErr(Err("InvalidBoolValue", value), pos)
      [] value_type = RawValueType.EnumValue -> ReadOk(EnumValue, pos)

\* Mutant: every nonzero bool value reads as true.
materialize_nonzero_is_true(symtab, value_type, value, pos) ==
    CASE value_type = RawValueType.NumberValue -> ReadOk(NumberValue(value), pos)
      [] value_type = RawValueType.Key ->
            LET s == lookup_symbol_table(symtab, value)
            IN  IF s.ok THEN ReadOk(Key(s.str, "Str"), pos) ELSE ReadErr(s.err, pos)
      [] value_type = RawValueType.StringValue ->
            LET s == lookup_symbol_table(symtab, value)
            IN  IF s.ok THEN ReadOk(StringValue(s.str), pos) ELSE ReadErr(s.err, pos)
      [] value_type = RawValueType.BoolValue -> ReadOk(BoolValue(value # 0), pos)
      [] value_type = RawValueType.EnumValue -> ReadOk(EnumValue, pos)

\* The Symbol of a (value_type, value) pair: the match of read_next_value.
materialize(symtab, value_type, value, pos) ==
    CASE value_type = RawValueType.NumberValue -> ReadOk(NumberValue(value), pos)
      [] value_type = RawValueType.Key ->
            LET s == lookup_symbol_table(symtab, value)
            IN  IF s.ok THEN ReadOk(Key(s.str, "Str"), pos) ELSE ReadErr(s.err, pos)
      [] value_type = RawValueType.StringValue ->
            LET s == lookup_symbol_table(symtab, value)
            IN  IF s.ok THEN ReadOk(StringValue(s.str), pos) ELSE ReadErr(s.err, pos)
      [] value_type = RawValueType.BoolValue ->
            CASE value = 0 -> ReadOk(BoolValue(FALSE), pos)
              [] value = 1 -> ReadOk(BoolValue(TRUE), pos)
              [] OTHER -> ReadErr(Err("InvalidBoolValue", value), pos)
      [] value_type = RawValueType.EnumValue -> ReadOk(EnumValue, pos)

\* Mutant: the length of the operand is checked before its type byte.
read_next_value_end_first(bytes, pos, symtab) ==
    LET value_type == next_u8(bytes, pos)
        value == next_u32(bytes, value_type.pos)
    IN  IF ~value_type.ok \/ ~value.ok
        THEN ReadErr(Err("UnexpectedEnd", 0), Len(bytes))
        ELSE IF value_type.val \notin RawValueTypeBytes
        THEN ReadErr(Err("InvalidValueType", value_type.val), value_type.pos)
        ELSE materialize(symtab, value_type.val, value.val, value.pos)

\* Mutant: an unknown value type is reported only after the value was read.
read_next_value_type_checked_late(bytes, pos, symtab) ==
    LET value_type == next_u8(bytes, pos)
        value == next_u32(bytes, value_type.pos)
    IN  IF ~value_type.ok
        THEN ReadErr(Err("UnexpectedEnd", 0), value_type.pos)
        ELSE IF ~value.ok
        THEN ReadErr(Err("UnexpectedEnd", 0), value.pos)
        ELSE IF value_type.val \notin RawValueTypeBytes
        THEN ReadErr(Err("InvalidValueType", value_type.val), value.pos)
        ELSE materialize(symtab, value_type.val, value.val, value.pos)

\* Mutant: a value cut short by the end of the stream reads as 0.
read_next_value_unwrap_or_zero(bytes, pos, symtab) ==
    LET value_type == next_u8(bytes, pos)
        value == next_u32(bytes, value_type.pos)
    IN  IF ~value_type.ok
        THEN ReadErr(Err("UnexpectedEnd", 0), value_type.pos)
        ELSE IF value_type.val \notin RawValueTypeBytes
        THEN ReadErr(Err("InvalidValueType", value_type.val), value_type.pos)
        ELSE materialize(symtab, value_type.val, value.val, value.pos)

\* read_next_value: one type byte, then a u32 value, from position pos.
read_next_value(bytes, pos, symtab) ==
    LET value_type == next_u8(bytes, pos)
        value == next_u32(bytes, value_type.pos)
    IN  IF ~value_type.ok
        THEN ReadErr(Err("UnexpectedEnd", 0), value_type.pos)
        ELSE IF value_type.val \notin RawValueTypeBytes
        THEN ReadErr(Err("InvalidValueType", value_type.val), value_type.pos)
        ELSE IF ~value.ok
        THEN ReadErr(Err("UnexpectedEnd", 0), value.pos)
        ELSE materialize(symtab, value_type.val, value.val, value.pos)

\* Mutant: values of different types compare as unequal instead of failing.
compare_symbols_unchecked(cond, lhs, rhs) ==
    IF cond = "Equal" THEN Ok(lhs = rhs) ELSE Ok(lhs # rhs)

\* Mutant: two numbers are compared by their low 32 bits.
compare_symbols_low_word(cond, lhs, rhs) ==
    LET same == IF lhs.tag = "NumberValue" THEN lhs.num = rhs.num ELSE lhs = rhs
    IN  IF lhs.tag # rhs.tag
        THEN Err("MismatchValueTypes", 0)
        ELSE IF cond = "Equal" THEN Ok(same) ELSE Ok(~same)

\* Mutant: the two conditions are swapped.
compare_symbols_swapped(cond, lhs, rhs) ==
    IF lhs.tag # rhs.tag
    THEN Err("MismatchValueTypes", 0)
    ELSE IF cond = "Equal" THEN Ok(lhs # rhs) ELSE Ok(lhs = rhs)

\* compare_symbols: the discriminants must agree, then == or !=.
compare_symbols(cond, lhs, rhs) ==
    IF lhs.tag # rhs.tag
    THEN Err("MismatchValueTypes", 0)
    ELSE IF cond = "Equal" THEN Ok(lhs = rhs) ELSE Ok(lhs # rhs)

\* Mutant: an absent key fails every condition.
absent_key_fails(cond) == Ok(FALSE)

\* The verdict of a condition whose key the device does not have.
absent_key(cond) == Ok(cond = "Inequal")

\* properties.get(&property_key), then the comparison.
evaluate(props, cond, key, bind_value) ==
    IF key \notin DOMAIN props
    THEN absent_key(cond)
    ELSE compare_symbols(cond, props[key], bind_value)

\* evaluate_condition_inst: the Condition of a condition opcode; any other
\* opcode panics before a byte is read (match_bind calls it for the two
\* condition opcodes only).
condition_of(op) ==
    CASE op = EqualCondition -> "Equal"
      [] op = InequalCondition -> "Inequal"
      [] OTHER -> "panic"

\* Mutant: a Key symbol is no property key.
to_property_key_without_key(sym) ==
    CASE sym.tag = "NumberValue" -> NumberKey64(sym.high, sym.num)
      [] sym.tag = "StringValue" -> StringKey(sym.str)
      [] OTHER -> NoKey

\* The projection of the key operand's Symbol to a PropertyKey.
to_property_key(sym) ==
    CASE sym.tag = "NumberValue" -> NumberKey64(sym.high, sym.num)
      [] sym.tag \in {"StringValue", "Key"} -> StringKey(sym.str)
      [] OTHER -> NoKey

\* match_bind returns r.
Return(r) ==
    /\ pc' = "done"
    /\ result' = r

\* Mutant: the unconditional abort falls into the ignored opcodes.
dispatch_abort_ignored(byte) ==
    IF byte \notin RawOp THEN "invalid"
    ELSE IF byte \in {EqualCondition, InequalCondition} THEN "condition"
    ELSE "skip"

\* Mutant: an unknown opcode is ignored like a jump.
dispatch_unknown_ignored(byte) ==
    IF byte \in {EqualCondition, InequalCondition} THEN "condition"
    ELSE IF byte = Abort THEN "abort"
    ELSE "skip"

\* FromPrimitive::from_u8 on the opcode byte and the arms of the match on it.
dispatch(byte) ==
    IF byte \notin RawOp THEN "invalid"
    ELSE IF byte \in {EqualCondition, InequalCondition} THEN "condition"
    ELSE IF byte = Abort THEN "abort"
    ELSE "skip"

\* match_bind, the head of the loop: the next opcode byte and its dispatch.
MatchBindOp ==
    /\ pc = "loop"
    /\ iter < Len(instructions)
    /\ LET byte == instructions[iter + 1]
           arm == dispatch(byte)
       IN  /\ iter' = iter + 1
           /\ op_byte' = byte
           /\ CASE arm = "invalid" -> Return(Err("InvalidOp", byte)) /\ UNCHANGED condition
                [] arm = "condition" ->
                       pc' = "key" /\ condition' = condition_of(byte) /\ UNCHANGED result
                [] arm = "abort" -> Return(Ok(FALSE)) /\ UNCHANGED condition
                [] OTHER -> UNCHANGED <<pc, result, condition>>
    /\ UNCHANGED <<encoder_vars, packed, peer, instructions, symbol_table, properties, property_key>>

\* Mutant: the exhausted stream returns Ok(false).
MatchBindEnd_false ==
    /\ pc = "loop"
    /\ iter >= Len(instructions)
    /\ Return(Ok(FALSE))
    /\ UNCHANGED <<encoder_vars, packed, peer, instructions, symbol_table, properties, iter, op_byte, condition,
                   property_key>>

\* match_bind, the iterator is exhausted: Ok(true).
MatchBindEnd ==
    /\ pc = "loop"
    /\ iter >= Len(instructions)
    /\ Return(Ok(TRUE))
    /\ UNCHANGED <<encoder_vars, packed, peer, instructions, symbol_table, properties, iter, op_byte, condition,
                   property_key>>

\* read_and_evaluate_values, the key operand.
ReadKey ==
    /\ pc = "key"
    /\ LET r == read_next_value(instructions, iter, symbol_table)
       IN  /\ iter' = r.pos
           /\ IF ~r.ok
              THEN Return(r.err) /\ UNCHANGED property_key
              ELSE IF to_property_key(r.sym) = NoKey
              THEN Return(Panic) /\ UNCHANGED property_key
              ELSE pc' = "value" /\ property_key' = to_property_key(r.sym)
                   /\ UNCHANGED result
    /\ UNCHANGED <<encoder_vars, packed, peer, instructions, symbol_table, properties, op_byte, condition>>

\* Mutant: a failed condition drains the iterator before it returns.
ReadValue_drains ==
    /\ pc = "value"
    /\ LET r == read_next_value(instructions, iter, symbol_table)
           v == evaluate(properties, condition, property_key, r.sym)
       IN  IF ~r.ok
           THEN iter' = r.pos /\ Return(r.err)
           ELSE IF v.kind = "Ok" /\ v.ok
           THEN iter' = r.pos /\ pc' = "loop" /\ UNCHANGED result
           ELSE iter' = Len(instructions) /\ Return(v)
    /\ UNCHANGED <<encoder_vars, packed, peer, instructions, symbol_table, properties, op_byte,
                   condition, property_key>>

\* Mutant: the device table is consulted before the value operand is decoded.
ReadValue_lookup_first ==
    /\ pc = "value"
    /\ LET r == read_next_value(instructions, iter, symbol_table)
           v == IF property_key \notin DOMAIN properties
                THEN absent_key(condition)
                ELSE evaluate(properties, condition, property_key, r.sym)
       IN  /\ iter' = r.pos
           /\ IF ~r.ok /\ property_key \in DOMAIN properties
              THEN Return(r.err)
              ELSE IF v.kind = "Ok" /\ v.ok
              THEN pc' = "loop" /\ UNCHANGED result
              ELSE Return(v)
    /\ UNCHANGED <<encoder_vars, packed, peer, instructions, symbol_table, properties, op_byte,
                   condition, property_key>>

\* Mutant: the property is taken out of the device table by the lookup.
ReadValue_remove ==
    /\ pc = "value"
    /\ LET r == read_next_value(instructions, iter, symbol_table)
           v == evaluate(properties, condition, property_key, r.sym)
       IN  /\ iter' = r.pos
           /\ IF ~r.ok
              THEN Return(r.err) /\ UNCHANGED properties
              ELSE /\ properties' = [k \in DOMAIN properties \ {property_key} |-> properties[k]]
                   /\ IF v.kind = "Ok" /\ v.ok
                      THEN pc' = "loop" /\ UNCHANGED result
                      ELSE Return(v)
    /\ UNCHANGED <<encoder_vars, packed, peer, instructions, symbol_table, op_byte, condition,
                   property_key>>

\* Mutant: a failed condition does not return, the loop goes on.
ReadValue_no_short_circuit ==
    /\ pc = "value"
    /\ LET r == read_next_value(instructions, iter, symbol_table)
           v == evaluate(properties, condition, property_key, r.sym)
       IN  /\ iter' = r.pos
           /\ IF ~r.ok
              THEN Return(r.err)
              ELSE IF v.kind = "Ok"
              THEN pc' = "loop" /\ UNCHANGED result
              ELSE Return(v)
    /\ UNCHANGED <<encoder_vars, packed, peer, instructions, symbol_table, properties, op_byte, condition,
                   property_key>>

\* read_and_evaluate_values, the value operand and the comparison.
ReadValue ==
    /\ pc = "value"
    /\ LET r == read_next_value(instructions, iter, symbol_table)
           v == evaluate(properties, condition, property_key, r.sym)
       IN  /\ iter' = r.pos
           /\ IF ~r.ok
              THEN Return(r.err)
              ELSE IF v.kind = "Ok" /\ v.ok
              THEN pc' = "loop" /\ UNCHANGED result
              ELSE Return(v)
    /\ UNCHANGED <<encoder_vars, packed, peer, instructions, symbol_table, properties, op_byte, condition,
                   property_key>>

\* match_bind as a function of its inputs: the result of the loop from position pos.
RECURSIVE match_bind_from(_, _, _, _)
match_bind_from(bytes, pos, symtab, props) ==
    IF pos >= Len(bytes) THEN Ok(TRUE)
    ELSE
    LET byte == bytes[pos + 1]
        arm == dispatch(byte)
        k == read_next_value(bytes, pos + 1, symtab)
        v == read_next_value(bytes, k.pos, symtab)
        e == evaluate(props, condition_of(byte), to_property_key(k.sym), v.sym)
    IN  CASE arm = "invalid" -> Err("InvalidOp", byte)
          [] arm = "abort" -> Ok(FALSE)
          [] arm = "condition" ->
                IF ~k.ok THEN k.err
                ELSE IF to_property_key(k.sym) = NoKey THEN Panic
                ELSE IF ~v.ok THEN v.err
                ELSE IF e.kind = "Ok" /\ e.ok THEN match_bind_from(bytes, v.pos, symtab, props)
                ELSE e
          [] OTHER -> match_bind_from(bytes, pos + 1, symtab, props)

\* An unconditional jump of the V2 format: the opcode and a u32 offset.
UnconditionalJumpInst(offset) == <<16>> \o to_le_bytes(offset)

-----------------------------------------------------------------------------
(* The inputs: every DecodedProgram and device property table of a small   *)
(* universe.                                                               *)

\* The strings of the symbol table and of the device properties.
SymbolStrings == {"nightjar", "poorwill"}

\* Symbol tables over the indexes 1 and 2; every other index is missing.
SymbolTables == UNION {[S -> SymbolStrings] : S \in SUBSET {1, 2}}

\* The raw u32 values of operands: 0 and 2000 are no symbol index, 2 and 2000
\* are no bool, 2000 is wider than one byte.
RawValues == {0, 1, 2, 2000}

\* Operands (value_type, value): the five value types and the invalid tag 5.
Operands == (0 .. 5) \X RawValues

\* The operands in key position.
KeyOperands == (0 .. 5) \X {1, 2000}

\* The keys and values a device may have.
DeviceKeys == {NumberKey(1), StringKey("nightjar")}

DeviceValues ==
    {NumberValue(2000), StringValue("nightjar"), BoolValue(TRUE), EnumValue,
     Key("nightjar", "Str"), Key("nightjar", "Number")}

DevicePropertyTables == UNION {[S -> DeviceValues] : S \in SUBSET DeviceKeys}

\* One whole condition instruction with any two operands.
Conditions ==
    {append_equal_cond(k, v) : k \in KeyOperands, v \in Operands}
        \cup {append_inequal_cond(k, v) : k \in KeyOperands, v \in Operands}

\* The operands of the instructions of longer streams.
CoreKeys == {<<0, 1>>, <<2, 1>>}
CoreValues == {<<0, 2000>>, <<2, 1>>}

CoreInstructions ==
    {append_equal_cond(k, v) : k \in CoreKeys, v \in CoreValues}
        \cup {append_inequal_cond(k, v) : k \in CoreKeys, v \in CoreValues}
        \cup {<<Abort>>, <<16>>, <<0>>, <<255>>}

RECURSIVE Programs(_)
Programs(n) ==
    IF n = 0 THEN {<< >>}
    ELSE Programs(n - 1) \cup {p \o i : p \in Programs(n - 1), i \in CoreInstructions}

\* Streams cut short inside a condition instruction, alone or after one
\* whole instruction.
Truncated ==
    {p \o SubSeq(c, 1, n) : p \in Programs(1),
                            c \in {append_equal_cond(<<2, 1>>, <<3, 1>>),
                                   append_inequal_cond(<<0, 1>>, <<5, 0>>)},
                            n \in 1 .. 10}

\* Conditions with a value type byte that is far from the five types.
OddTypes ==
    {append_equal_cond(<<255, 1>>, <<0, 1>>), append_inequal_cond(<<0, 1>>, <<255, 1>>),
     <<EqualCondition, 255>>, <<EqualCondition, 5, 1, 0>>}

\* A jump instruction with its offset, between two instructions or none.
JumpStreams ==
    {p \o UnconditionalJumpInst(offset) \o q :
        p \in {<< >>, append_inequal_cond(<<0, 1>>, <<0, 1>>)},
        offset \in {0, 48},
        q \in Programs(1)}

Streams == Programs(MaxInstrs) \cup Conditions \cup Truncated \cup OddTypes \cup JumpStreams

\* DeviceMatcher::new
Init ==
    /\ instructions \in Streams
    /\ symbol_table \in SymbolTables
    /\ properties \in DevicePropertyTables
    /\ iter = 0
    /\ pc = "loop"
    /\ op_byte = -1
    /\ condition = "-"
    /\ property_key = NoKey
    /\ result = Running
    /\ bind_program = << >>
    /\ records = << >>
    /\ bytecode = << >>
    /\ triples = << >>
    /\ text = << >>
    /\ packed = << >>
    /\ peer = NoMatcher

Next == MatchBindOp \/ MatchBindEnd \/ ReadKey \/ ReadValue

Spec == Init /\ [][Next]_vars

-----------------------------------------------------------------------------
(* Devices with numbers of more than 32 bits: a property value and a       *)
(* property key of 2^32 and above, beside ones below.                      *)

WideDeviceKeys == {NumberKey(1), NumberKey64(1, 1)}
WideDeviceValues == {NumberValue(2000), NumberValue64(1, 2000)}
WidePropertyTables == UNION {[S -> WideDeviceValues] : S \in SUBSET WideDeviceKeys}

\* Conditions on number keys with number values, up to the largest u32 of the model.
NumberConditions ==
    {append_equal_cond(<<0, k>>, <<0, v>>) : k \in {1, 2000}, v \in {1, 2000, 2147483647}}
        \cup {append_inequal_cond(<<0, k>>, <<0, v>>) :
                  k \in {1, 2000}, v \in {1, 2000, 2147483647}}

RECURSIVE NumberPrograms(_)
NumberPrograms(n) ==
    IF n = 0 THEN {<< >>}
    ELSE NumberPrograms(n - 1) \cup {p \o i : p \in NumberPrograms(n - 1), i \in NumberConditions}

\* DeviceMatcher::new for a device with wide numbers.
InitWide ==
    /\ instructions \in NumberPrograms(MaxInstrs)
    /\ symbol_table = << >>
    /\ properties \in WidePropertyTables
    /\ iter = 0
    /\ pc = "loop"
    /\ op_byte = -1
    /\ condition = "-"
    /\ property_key = NoKey
    /\ result = Running
    /\ bind_program = << >>
    /\ records = << >>
    /\ bytecode = << >>
    /\ triples = << >>
    /\ text = << >>
    /\ packed = << >>
    /\ peer = NoMatcher

SpecWide == InitWide /\ [][Next]_vars

-----------------------------------------------------------------------------
(* Two matchers at once.  A DecodedProgram and its symbol table are handed *)
(* to a second DeviceMatcher, for the same or for another device; the      *)
(* steps of the two calls of match_bind interleave.                        *)

\* One step of match_bind on a matcher held as a value: the loop head, the
\* key operand or the value operand, as in MatchBindOp, MatchBindEnd, ReadKey
\* and ReadValue.
match_bind_step(bytes, symtab, m) ==
    CASE m.pc = "loop" /\ m.iter < Len(bytes) ->
            LET byte == bytes[m.iter + 1]
                arm == dispatch(byte)
                n == [m EXCEPT !.iter = m.iter + 1, !.op_byte = byte]
            IN  CASE arm = "invalid" ->
                        [n EXCEPT !.pc = "done", !.result = Err("InvalidOp", byte)]
                  [] arm = "condition" ->
                        [n EXCEPT !.pc = "key", !.condition = condition_of(byte)]
                  [] arm = "abort" -> [n EXCEPT !.pc = "done", !.result = Ok(FALSE)]
                  [] OTHER -> n
      [] m.pc = "loop" /\ m.iter >= Len(bytes) ->
            [m EXCEPT !.pc = "done", !.result = Ok(TRUE)]
      [] m.pc = "key" ->
            LET r == read_next_value(bytes, m.iter, symtab)
                n == [m EXCEPT !.iter = r.pos]
            IN  IF ~r.ok
                THEN [n EXCEPT !.pc = "done", !.result = r.err]
                ELSE IF to_property_key(r.sym) = NoKey
                THEN [n EXCEPT !.pc = "done", !.result = Panic]
                ELSE [n EXCEPT !.pc = "value", !.property_key = to_property_key(r.sym)]
      [] m.pc = "value" ->
            LET r == read_next_value(bytes, m.iter, symtab)
                v == evaluate(m.properties, m.condition, m.property_key, r.sym)
                n == [m EXCEPT !.iter = r.pos]
            IN  IF ~r.ok
                THEN [n EXCEPT !.pc = "done", !.result = r.err]
                ELSE IF v.kind = "Ok" /\ v.ok
                THEN [n EXCEPT !.pc = "loop"]
                ELSE [n EXCEPT !.pc = "done", !.result = v]
      [] OTHER -> m

\* Mutant: the two matchers draw their bytes from one iterator.
PeerStep_shared_iterator ==
    /\ peer.pc \notin {"done", "none"}
    /\ LET n == match_bind_step(instructions, symbol_table, [peer EXCEPT !.iter = iter])
       IN  peer' = n /\ iter' = n.iter
    /\ UNCHANGED <<encoder_vars, packed, instructions, symbol_table, properties, pc, op_byte,
                   condition, property_key, result>>

\* A step of the second matcher's match_bind.
PeerStep ==
    /\ peer.pc \notin {"done", "none"}
    /\ peer' = match_bind_step(instructions, symbol_table, peer)
    /\ UNCHANGED <<matcher_vars, encoder_vars, packed>>

\* The streams, symbol tables and devices of the two matchers.
PairStreams == Programs(1) \cup Conditions \cup Truncated \cup OddTypes \cup JumpStreams
PairSymbolTables == {t \in SymbolTables : DOMAIN t = {} \/ t = <<"nightjar", "poorwill">>}
PairPropertyTables ==
    {t \in DevicePropertyTables :
        \A k \in DOMAIN t :
            t[k] = IF k.kind = "NumberKey" THEN NumberValue(2000) ELSE StringValue("nightjar")}

\* DeviceMatcher::new, twice over one program.
InitPair ==
    /\ instructions \in PairStreams
    /\ symbol_table \in PairSymbolTables
    /\ properties \in PairPropertyTables
    /\ iter = 0
    /\ pc = "loop"
    /\ op_byte = -1
    /\ condition = "-"
    /\ property_key = NoKey
    /\ result = Running
    /\ peer \in {DeviceMatcher(t) : t \in PairPropertyTables}
    /\ bind_program = << >>
    /\ records = << >>
    /\ bytecode = << >>
    /\ triples = << >>
    /\ text = << >>
    /\ packed = << >>

NextPair == MatchBindOp \/ MatchBindEnd \/ ReadKey \/ ReadValue \/ PeerStep

SpecPair == InitPair /\ [][NextPair]_vars

-----------------------------------------------------------------------------
(* The V1 encoder (encode_bind_program_v1.rs).  A RawInstruction is kept   *)
(* as its 96 bits, bit i of the record at index i + 1: bits 0..31 are the  *)
(* first u32 of the array, bits 32..63 the second, bits 64..95 the third.  *)

\* Longest bind program that is enumerated.
MaxProgramLen == 2

\* Mutant: the operations numbered without the gap of the native ABI.
RawOpV1_sequential == [Abort |-> 0, Match |-> 1, Goto |-> 2, Label |-> 3]

\* enum RawOp of the V1 format
RawOpV1 == [Abort |-> 0, Match |-> 1, Goto |-> 2, Label |-> 5]

\* enum RawCondition
RawCondition == [Always |-> 0, Equal |-> 1, NotEqual |-> 2]

\* instruction::Condition
Always == [cond |-> "Always", b |-> 0, v |-> 0]
Equal(b, v) == [cond |-> "Equal", b |-> b, v |-> v]
NotEqual(b, v) == [cond |-> "NotEqual", b |-> b, v |-> v]

\* instruction::Instruction (a Label carries no condition: the field is a filler)
AbortInst(c) == [op |-> "Abort", cond |-> c, a |-> 0]
MatchInst(c) == [op |-> "Match", cond |-> c, a |-> 0]
GotoInst(c, a) == [op |-> "Goto", cond |-> c, a |-> a]
LabelInst(a) == [op |-> "Label", cond |-> Always, a |-> a]

\* instruction::InstructionInfo with its InstructionDebug
InstructionInfo(instruction, line, ast_location, extra) ==
    [instruction |-> instruction,
     debug |-> [line |-> line, ast_location |-> ast_location, extra |-> extra]]

\* Bit i of a u32 argument (the arguments of the model are below 2^31).
Bit(n, i) == IF i > 30 THEN 0 ELSE (n \div 2^i) % 2

\* RawInstruction([0, 0, 0])
ZeroRawInstruction == [i \in 1 .. 96 |-> 0]

\* Mutant: the argument is not cut to the width of the field, its upper bits
\* are or-ed into the bits above the field in the same word.
set_bit_range_spilling(raw, msb, lsb, n) ==
    [i \in 1 .. 96 |->
        IF lsb <= i - 1 /\ i - 1 <= msb THEN Bit(n, i - 1 - lsb)
        ELSE IF i - 1 > msb /\ (i - 1) \div 32 = lsb \div 32 /\ Bit(n, i - 1 - lsb) = 1 THEN 1
        ELSE raw[i]]

\* BitRange::set_bit_range of the bitfield: bit by bit from lsb to msb, the
\* bits of the argument above the width of the field are dropped.
set_bit_range(raw, msb, lsb, n) ==
    [i \in 1 .. 96 |-> IF lsb <= i - 1 /\ i - 1 <= msb THEN Bit(n, i - 1 - lsb) ELSE raw[i]]

\* BitRange::bit_range of the bitfield
RECURSIVE bit_range(_, _, _)
bit_range(raw, msb, lsb) ==
    IF msb < lsb THEN 0 ELSE raw[lsb + 1] + 2 * bit_range(raw, msb, lsb + 1)

\* The setters and getters the bitfield! declaration generates.
set_condition(raw, n) == set_bit_range(raw, 31, 28, n)
set_operation(raw, n) == set_bit_range(raw, 27, 24, n)
set_parameter_a(raw, n) == set_bit_range(raw, 23, 16, n)
set_parameter_b(raw, n) == set_bit_range(raw, 15, 0, n)
set_value(raw, n) == set_bit_range(raw, 63, 32, n)
set_line(raw, n) == set_bit_range(raw, 95, 88, n)
set_ast_location(raw, n) == set_bit_range(raw, 87, 80, n)
set_extra(raw, n) == set_bit_range(raw, 79, 64, n)
get_condition(raw) == bit_range(raw, 31, 28)
get_operation(raw) == bit_range(raw, 27, 24)
get_parameter_a(raw) == bit_range(raw, 23, 16)
get_parameter_b(raw) == bit_range(raw, 15, 0)
get_value(raw) == bit_range(raw, 63, 32)
get_line(raw) == bit_range(raw, 95, 88)
get_ast_location(raw) == bit_range(raw, 87, 80)
get_extra(raw) == bit_range(raw, 79, 64)

\* Mutant: NotEqual is given the code of Equal.
encode_condition_not_equal_as_equal(c) ==
    CASE c.cond = "Always" -> <<RawCondition.Always, 0, 0>>
      [] c.cond = "Equal" -> <<RawCondition.Equal, c.b, c.v>>
      [] c.cond = "NotEqual" -> <<RawCondition.Equal, c.b, c.v>>

\* encode_condition: (condition code, parameter b, value)
encode_condition(c) ==
    CASE c.cond = "Always" -> <<RawCondition.Always, 0, 0>>
      [] c.cond = "Equal" -> <<RawCondition.Equal, c.b, c.v>>
      [] c.cond = "NotEqual" -> <<RawCondition.NotEqual, c.b, c.v>>

\* The tuple (c, o, a, b, v) From<Instruction> matches the instruction to.
from_fields(instruction) ==
    LET e == encode_condition(instruction.cond)
    IN  CASE instruction.op = "Abort" -> <<e[1], RawOpV1.Abort, 0, e[2], e[3]>>
          [] instruction.op = "Match" -> <<e[1], RawOpV1.Match, 0, e[2], e[3]>>
          [] instruction.op = "Goto" -> <<e[1], RawOpV1.Goto, instruction.a, e[2], e[3]>>
          [] instruction.op = "Label" ->
                <<RawCondition.Always, RawOpV1.Label, instruction.a, 0, 0>>

\* Mutant: the two parameters are set into each other's field.
From_parameters_swapped(instruction) ==
    LET f == from_fields(instruction)
        c == set_condition(ZeroRawInstruction, f[1])
        o == set_operation(c, f[2])
        a == set_parameter_a(o, f[4])
        b == set_parameter_b(a, f[3])
    IN  set_value(b, f[5])

\* impl From<Instruction> for RawInstruction<[u32; 3]>
From(instruction) ==
    LET f == from_fields(instruction)
        c == set_condition(ZeroRawInstruction, f[1])
        o == set_operation(c, f[2])
        a == set_parameter_a(o, f[3])
        b == set_parameter_b(a, f[4])
    IN  set_value(b, f[5])

\* Mutant: the extra field is set into the value.
encode_instruction_extra_in_value(info) ==
    LET raw_instruction == From(info.instruction)
        l == set_line(raw_instruction, info.debug.line)
        a == set_ast_location(l, info.debug.ast_location)
    IN  set_value(a, info.debug.extra)

\* Mutant: the line and the extra field are set into each other's place.
encode_instruction_line_low(info) ==
    LET raw_instruction == From(info.instruction)
        l == set_bit_range(raw_instruction, 71, 64, info.debug.line)
        a == set_bit_range(l, 79, 72, info.debug.ast_location)
    IN  set_bit_range(a, 95, 80, info.debug.extra)

\* encode_instruction
encode_instruction(info) ==
    LET raw_instruction == From(info.instruction)
        l == set_line(raw_instruction, info.debug.line)
        a == set_ast_location(l, info.debug.ast_location)
    IN  set_extra(a, info.debug.extra)

\* Mutant: the bytes of a word in big-endian order.
word_to_le_bytes_big_endian(raw, w) ==
    [j \in 1 .. 4 |-> bit_range(raw, 32 * w + 8 * (4 - j) + 7, 32 * w + 8 * (4 - j))]

\* u32::to_le_bytes of word w (0, 1, 2) of a record
word_to_le_bytes(raw, w) ==
    [j \in 1 .. 4 |-> bit_range(raw, 32 * w + 8 * (j - 1) + 7, 32 * w + 8 * (j - 1))]

\* [a.to_le_bytes(), b.to_le_bytes(), c.to_le_bytes()].concat()
record_bytes(raw) ==
    word_to_le_bytes(raw, 0) \o word_to_le_bytes(raw, 1) \o word_to_le_bytes(raw, 2)

\* The digits of {:x}.
HexDigits == <<"0", "1", "2", "3", "4", "5", "6", "7", "8", "9", "a", "b", "c", "d", "e", "f">>

\* The hexadecimal digits of word w from nibble n down, leading zeros dropped.
RECURSIVE lower_hex(_, _, _)
lower_hex(raw, w, n) ==
    LET nibble == bit_range(raw, 32 * w + 4 * n + 3, 32 * w + 4 * n)
    IN  IF n = 0 THEN <<HexDigits[nibble + 1]>>
        ELSE IF bit_range(raw, 32 * w + 31, 32 * w + 4 * n) = 0 THEN lower_hex(raw, w, n - 1)
        ELSE <<HexDigits[nibble + 1]>> \o lower_hex(raw, w, n - 1)

\* format!("{:#x}", word): the text is kept as the sequence of its characters.
format_hex(raw, w) == <<"0", "x">> \o lower_hex(raw, w, 7)

\* format!("{{{:#x},{:#x},{:#x}}},", word0, word1, word2)
format_record(raw) ==
    <<"{">> \o format_hex(raw, 0) \o <<",">> \o format_hex(raw, 1) \o <<",">>
        \o format_hex(raw, 2) \o <<"}", ",">>

\* encode_to_bytecode_v1: the next instruction of the program is encoded and
\* its twelve bytes are collected.
EncodeToBytecodeV1 ==
    /\ Len(records) < Len(bind_program)
    /\ LET raw_instruction == encode_instruction(bind_program[Len(records) + 1])
       IN  /\ records' = Append(records, raw_instruction)
           /\ bytecode' = bytecode \o record_bytes(raw_instruction)
    /\ UNCHANGED <<matcher_vars, packed, peer, bind_program, triples, text>>

\* encode_to_string_v1: the next instruction of the program is encoded and
\* its triple is collected.
EncodeToStringV1 ==
    /\ Len(triples) < Len(bind_program)
    /\ LET raw_instruction == encode_instruction(bind_program[Len(triples) + 1])
       IN  /\ triples' = Append(triples, raw_instruction)
           /\ text' = text \o format_record(raw_instruction)
    /\ UNCHANGED <<matcher_vars, packed, peer, bind_program, records, bytecode>>

\* The u32 arguments: keys, values, targets and label ids, debug metadata.
ConditionKeys == {0, 23, 65535, 65536 + 23}
ConditionValues == {0, 1234, 2147483647}
LabelIds == {0, 42, 255, 256 + 42}
DebugLines == {0, 7, 256 + 7}
AstLocations == {0, 3}
DebugExtras == {0, 4660, 65536 + 4660}

ConditionsV1 ==
    {Always} \cup {Equal(b, v) : b \in ConditionKeys, v \in ConditionValues}
             \cup {NotEqual(b, v) : b \in ConditionKeys, v \in ConditionValues}

Instructions ==
    {AbortInst(c) : c \in ConditionsV1} \cup {MatchInst(c) : c \in ConditionsV1}
        \cup {GotoInst(c, a) : c \in ConditionsV1, a \in LabelIds}
        \cup {LabelInst(a) : a \in LabelIds}

InstructionInfos ==
    {InstructionInfo(i, l, a, e) :
        i \in Instructions, l \in DebugLines, a \in AstLocations, e \in DebugExtras}

\* The instructions of the longer programs.
CoreInfos ==
    {InstructionInfo(GotoInst(Equal(23, 1234), 42), 7, 3, 4660),
     InstructionInfo(GotoInst(NotEqual(23, 1234), 42), 7, 3, 4660),
     InstructionInfo(GotoInst(Equal(23, 1234), 42), 0, 0, 0),
     InstructionInfo(AbortInst(Always), 0, 0, 0),
     InstructionInfo(LabelInst(256 + 42), 256 + 7, 0, 65536 + 4660)}

RECURSIVE CorePrograms(_)
CorePrograms(n) ==
    IF n = 0 THEN {<< >>}
    ELSE LET shorter == CorePrograms(n - 1)
         IN  shorter \cup {Append(p, i) : p \in {q \in shorter : Len(q) = n - 1}, i \in CoreInfos}

BindPrograms == {<<i>> : i \in InstructionInfos} \cup CorePrograms(MaxProgramLen)

\* A bind program handed to the two encoders; the matcher is idle.
InitV1 ==
    /\ bind_program \in BindPrograms
    /\ records = << >>
    /\ bytecode = << >>
    /\ triples = << >>
    /\ text = << >>
    /\ instructions = << >>
    /\ symbol_table = << >>
    /\ properties = << >>
    /\ iter = 0
    /\ pc = "loop"
    /\ op_byte = -1
    /\ condition = "-"
    /\ property_key = NoKey
    /\ result = Running
    /\ packed = << >>
    /\ peer = NoMatcher

NextV1 == EncodeToBytecodeV1 \/ EncodeToStringV1

SpecV1 == InitV1 /\ [][NextV1]_vars

-----------------------------------------------------------------------------
(* The setters of a RawInstruction, called in any order on one record.     *)

\* The u32 arguments of the setters: wider than every field but value.
SetterArguments == {0, 65536 + 256 + 42, 2147483647}

SetCondition ==
    /\ \E n \in SetterArguments : packed' = set_condition(packed, n)
    /\ UNCHANGED <<matcher_vars, encoder_vars, peer>>

SetOperation ==
    /\ \E n \in SetterArguments : packed' = set_operation(packed, n)
    /\ UNCHANGED <<matcher_vars, encoder_vars, peer>>

SetParameterA ==
    /\ \E n \in SetterArguments : packed' = set_parameter_a(packed, n)
    /\ UNCHANGED <<matcher_vars, encoder_vars, peer>>

SetParameterB ==
    /\ \E n \in SetterArguments : packed' = set_parameter_b(packed, n)
    /\ UNCHANGED <<matcher_vars, encoder_vars, peer>>

SetValue ==
    /\ \E n \in SetterArguments : packed' = set_value(packed, n)
    /\ UNCHANGED <<matcher_vars, encoder_vars, peer>>

SetLine ==
    /\ \E n \in SetterArguments : packed' = set_line(packed, n)
    /\ UNCHANGED <<matcher_vars, encoder_vars, peer>>

SetAstLocation ==
    /\ \E n \in SetterArguments : packed' = set_ast_location(packed, n)
    /\ UNCHANGED <<matcher_vars, encoder_vars, peer>>

SetExtra ==
    /\ \E n \in SetterArguments : packed' = set_extra(packed, n)
    /\ UNCHANGED <<matcher_vars, encoder_vars, peer>>

\* RawInstruction([0, 0, 0]); the matcher and the encoders are idle.
InitSetters ==
    /\ packed = ZeroRawInstruction
    /\ peer = NoMatcher
    /\ bind_program = << >>
    /\ records = << >>
    /\ bytecode = << >>
    /\ triples = << >>
    /\ text = << >>
    /\ instructions = << >>
    /\ symbol_table = << >>
    /\ properties = << >>
    /\ iter = 0
    /\ pc = "loop"
    /\ op_byte = -1
    /\ condition = "-"
    /\ property_key = NoKey
    /\ result = Running

NextSetters ==
    \/ SetCondition \/ SetOperation \/ SetParameterA \/ SetParameterB
    \/ SetValue \/ SetLine \/ SetAstLocation \/ SetExtra

SpecSetters == InitSetters /\ [][NextSetters]_vars

-----------------------------------------------------------------------------
(* The vocabulary of the properties.  An operand is recognized in the      *)
(* stream by its encoding, and its meaning is the one of the format's      *)
(* description: nothing here uses the matcher's decoding.                  *)

Done == pc = "done"

\* The bytes of one operand, and of one condition instruction.
OperandLen == Len(append_encoded_value(0, 0))
ConditionLen == 1 + OperandLen + OperandLen

\* The operand o is encoded in the stream right after position pos.
EncodedAt(pos, o) ==
    /\ pos + OperandLen <= Len(instructions)
    /\ SubSeq(instructions, pos + 1, pos + OperandLen) = append_encoded_value(o[1], o[2])

HasOperandAt(pos) == \E o \in Operands : EncodedAt(pos, o)
OperandAt(pos) == CHOOSE o \in Operands : EncodedAt(pos, o)

\* The operand names a symbol index.
IsSymbolOperand(o) == o[1] \in {RawValueType.Key, RawValueType.StringValue}

\* The operand materializes to a value.
Materializes(o) ==
    \/ o[1] \in {RawValueType.NumberValue, RawValueType.EnumValue}
    \/ IsSymbolOperand(o) /\ o[2] \in DOMAIN symbol_table
    \/ o[1] = RawValueType.BoolValue /\ o[2] \in {0, 1}

\* The operand materializes to a value that is a property key.
IsKeyOperand(o) ==
    /\ o[1] \in {RawValueType.NumberValue, RawValueType.Key, RawValueType.StringValue}
    /\ Materializes(o)

\* The value of an operand that materializes.
ValueOf(o) ==
    CASE o[1] = RawValueType.NumberValue -> NumberValue(o[2])
      [] o[1] = RawValueType.Key -> Key(symbol_table[o[2]], "Str")
      [] o[1] = RawValueType.StringValue -> StringValue(symbol_table[o[2]])
      [] o[1] = RawValueType.BoolValue -> BoolValue(o[2] = 1)
      [] o[1] = RawValueType.EnumValue -> EnumValue

\* The device property a key operand selects.
KeyOf(o) ==
    IF o[1] = RawValueType.NumberValue THEN NumberKey(o[2]) ELSE StringKey(symbol_table[o[2]])

\* The i-th condition instruction (from 0) of a stream of condition instructions.
OpAt(i) == instructions[i * ConditionLen + 1]
KeyAt(i) == OperandAt(i * ConditionLen + 1)
ValueAt(i) == OperandAt(i * ConditionLen + 1 + OperandLen)

WellFormedAt(i) ==
    /\ OpAt(i) \in {EqualCondition, InequalCondition}
    /\ HasOperandAt(i * ConditionLen + 1)
    /\ HasOperandAt(i * ConditionLen + 1 + OperandLen)
    /\ IsKeyOperand(KeyAt(i))
    /\ Materializes(ValueAt(i))

\* The i-th instruction compares two values of one type, or its key is absent.
SameTypeAt(i) ==
    KeyOf(KeyAt(i)) \in DOMAIN properties
        => properties[KeyOf(KeyAt(i))].tag = ValueOf(ValueAt(i)).tag

\* The i-th instruction is satisfied by the device.
SatisfiedAt(i) ==
    LET k == KeyOf(KeyAt(i))
        v == ValueOf(ValueAt(i))
    IN  IF OpAt(i) = EqualCondition
        THEN k \in DOMAIN properties /\ properties[k] = v
        ELSE k \notin DOMAIN properties \/ properties[k] # v

NumConditions == Len(instructions) \div ConditionLen

\* The stream is made only of well-formed condition instructions whose
\* comparisons never mismatch in type.
ConditionStream ==
    /\ Len(instructions) % ConditionLen = 0
    /\ \A i \in 0 .. NumConditions - 1 : WellFormedAt(i) /\ SameTypeAt(i)

FailingConditions == {i \in 0 .. NumConditions - 1 : ~SatisfiedAt(i)}
FirstFailing == CHOOSE i \in FailingConditions : \A j \in FailingConditions : i <= j

\* The stream is one condition instruction with the opcode op, well-formed.
SingleCondition(op) ==
    /\ Len(instructions) = ConditionLen
    /\ OpAt(0) = op
    /\ WellFormedAt(0)

-----------------------------------------------------------------------------
(* Properties.                                                             *)

\* C1: for a stream made only of well-formed Equal and Inequal instructions
\* whose comparisons never mismatch in type, match_bind returns Ok(true) iff
\* every instruction is satisfied (an Equal key present with an equal value, an
\* Inequal key absent or present with a different value); otherwise it returns
\* Ok(false), having read the stream up to the end of the first failing
\* instruction and no further.
C1_ConditionStreamVerdict ==
    (Done /\ ConditionStream) =>
        IF FailingConditions = {}
        THEN result = Ok(TRUE) /\ iter = Len(instructions)
        ELSE result = Ok(FALSE) /\ iter = (FirstFailing + 1) * ConditionLen

\* C1 witness: a stream of two instructions, the first satisfied, the second not.
C1_Witness ==
    /\ Done /\ ConditionStream
    /\ NumConditions = 2
    /\ FailingConditions = {1}
    /\ result = Ok(FALSE)

\* C2: a single Equal instruction yields Ok(true) when its key is present with
\* an equal value, Ok(false) when it is present with a different value of the
\* same type, and Ok(false) when it is absent; for number and string keys.
C2_SingleEqual ==
    (Done /\ SingleCondition(EqualCondition)) =>
        LET k == KeyOf(KeyAt(0))
            v == ValueOf(ValueAt(0))
        IN  /\ (k \in DOMAIN properties /\ properties[k] = v) => result = Ok(TRUE)
            /\ (k \in DOMAIN properties /\ properties[k] # v
                    /\ properties[k].tag = v.tag) => result = Ok(FALSE)
            /\ k \notin DOMAIN properties => result = Ok(FALSE)

\* C2 witness: a string-keyed property equal to the string the instruction names.
C2_Witness ==
    /\ Done /\ SingleCondition(EqualCondition)
    /\ KeyOf(KeyAt(0)) = StringKey("nightjar")
    /\ StringKey("nightjar") \in DOMAIN properties
    /\ properties[StringKey("nightjar")] = ValueOf(ValueAt(0))
    /\ ValueAt(0)[1] = RawValueType.StringValue
    /\ result = Ok(TRUE)

\* C3: a single Inequal instruction yields Ok(true) when its key is absent,
\* Ok(true) when it is present with a different value of the same type, and
\* Ok(false) when it is present with an equal value.
C3_SingleInequal ==
    (Done /\ SingleCondition(InequalCondition)) =>
        LET k == KeyOf(KeyAt(0))
            v == ValueOf(ValueAt(0))
        IN  /\ k \notin DOMAIN properties => result = Ok(TRUE)
            /\ (k \in DOMAIN properties /\ properties[k] # v
                    /\ properties[k].tag = v.tag) => result = Ok(TRUE)
            /\ (k \in DOMAIN properties /\ properties[k] = v) => result = Ok(FALSE)

\* C3 witness: the key is absent from the device table.
C3_Witness ==
    /\ Done /\ SingleCondition(InequalCondition)
    /\ KeyOf(KeyAt(0)) \notin DOMAIN properties
    /\ DOMAIN properties # {}
    /\ result = Ok(TRUE)

\* C5: an empty stream evaluates to Ok(true) for every device property table
\* and every symbol table; nothing else can happen to it.
C5_EmptyStream ==
    instructions = << >> =>
        \/ pc = "loop" /\ result = Running /\ ENABLED MatchBindEnd
        \/ Done /\ result = Ok(TRUE)

\* C5 witness: the empty stream matched a device that has properties.
C5_Witness ==
    /\ Done
    /\ instructions = << >>
    /\ DOMAIN properties # {} /\ DOMAIN symbol_table # {}
    /\ result = Ok(TRUE)

\* C4: whenever a condition instruction is evaluated whose key is present in
\* the device table with a stored value of another tag than the decoded
\* comparison value, the match returns Err(MismatchValueTypes) at that
\* instruction, never a verdict.
C4_TypeMismatch ==
    [][(/\ pc = "value"
        /\ HasOperandAt(iter) /\ Materializes(OperandAt(iter))
        /\ KeyOf(OperandAt(iter - OperandLen)) \in DOMAIN properties
        /\ properties[KeyOf(OperandAt(iter - OperandLen))].tag # ValueOf(OperandAt(iter)).tag)
            => (pc' = "done" /\ result' = Err("MismatchValueTypes", 0))]_vars

\* C4 witness: an Inequal instruction compared a bool property with a number.
C4_Witness ==
    /\ Done
    /\ result = Err("MismatchValueTypes", 0)
    /\ condition = "Inequal"
    /\ property_key \in DOMAIN properties
    /\ properties[property_key].tag = "BoolValue"
    /\ OperandAt(iter - OperandLen)[1] = RawValueType.NumberValue

\* C6: whenever the byte 0x30 is read in opcode position the match returns
\* Ok(false) at once, reading no further byte, for every device table; a
\* stream that is only 0x30 never matches.
C6_UnconditionalAbort ==
    /\ [][(pc = "loop" /\ iter < Len(instructions) /\ instructions[iter + 1] = Abort)
            => (pc' = "done" /\ result' = Ok(FALSE) /\ iter' = iter + 1)]_vars
    /\ []((Done /\ instructions = <<Abort>>) => result = Ok(FALSE))

\* C6 witness: an abort after a satisfied condition, with bytes left unread.
C6_Witness ==
    /\ Done
    /\ op_byte = Abort
    /\ iter = ConditionLen + 1
    /\ result = Ok(FALSE)
    /\ DOMAIN properties # {}

\* The error met by reading an operand at position pos, if any.
OperandError(pos) ==
    IF pos >= Len(instructions) THEN Err("UnexpectedEnd", 0)
    ELSE IF instructions[pos + 1] \notin RawValueTypeBytes
    THEN Err("InvalidValueType", instructions[pos + 1])
    ELSE IF Len(instructions) - pos < OperandLen THEN Err("UnexpectedEnd", 0)
    ELSE LET o == OperandAt(pos)
         IN  IF IsSymbolOperand(o) /\ o[2] \notin DOMAIN symbol_table
             THEN Err("MissingEntryInSymbolTable", o[2])
             ELSE IF o[1] = RawValueType.BoolValue /\ o[2] \notin {0, 1}
             THEN Err("InvalidBoolValue", o[2])
             ELSE Running

\* The decode or type error the next step of the evaluation meets, if any.
ErrorMet ==
    CASE pc = "loop" /\ iter < Len(instructions) /\ instructions[iter + 1] \notin RawOp ->
             Err("InvalidOp", instructions[iter + 1])
      [] pc = "key" -> OperandError(iter)
      [] pc = "value" /\ OperandError(iter) # Running -> OperandError(iter)
      [] pc = "value" /\ OperandError(iter) = Running
            /\ KeyOf(OperandAt(iter - OperandLen)) \in DOMAIN properties
            /\ properties[KeyOf(OperandAt(iter - OperandLen))].tag
                   # ValueOf(OperandAt(iter)).tag -> Err("MismatchValueTypes", 0)
      [] OTHER -> Running

\* C7: every decode or type error met during evaluation ends the evaluation in
\* that step and is returned as Err of that kind, never as a verdict; once
\* match_bind has returned nothing is read again, and the iterator never
\* moves back.
C7_ErrorsSurface ==
    /\ [][ErrorMet # Running => (pc' = "done" /\ result' = ErrorMet)]_vars
    /\ [][pc # "done" /\ iter' >= iter]_vars

\* C7 witness: the invalid bool value 2000 of a condition on a present key was
\* returned at the end of that instruction.
C7_Witness ==
    /\ Done
    /\ iter = ConditionLen
    /\ property_key \in DOMAIN properties
    /\ result = Err("InvalidBoolValue", 2000)

\* C8: a StringValue or Key operand, in key or in value position, whose raw
\* index is no key of the symbol table makes the match return
\* Err(MissingEntryInSymbolTable(index)) with that index.
C8_MissingSymbol ==
    [][(/\ pc \in {"key", "value"}
        /\ HasOperandAt(iter)
        /\ IsSymbolOperand(OperandAt(iter))
        /\ OperandAt(iter)[2] \notin DOMAIN symbol_table)
            => (/\ pc' = "done"
                /\ result' = Err("MissingEntryInSymbolTable", OperandAt(iter)[2]))]_vars

\* C8 witness: index 2 is missing in value position while index 1 is present.
C8_Witness ==
    /\ Done
    /\ result = Err("MissingEntryInSymbolTable", 2)
    /\ iter = ConditionLen
    /\ property_key = StringKey("poorwill")
    /\ 1 \in DOMAIN symbol_table
    /\ OperandAt(iter - OperandLen)[1] = RawValueType.Key

\* The condition instruction being read is cut short by the end of the stream.
TruncatedHere ==
    \/ pc = "key" /\ Len(instructions) - iter < OperandLen + OperandLen
    \/ pc = "value" /\ Len(instructions) - iter < OperandLen

\* C9: when the stream ends where an operand is being read, with no type byte
\* or with fewer than 4 value bytes after a valid type byte, the match returns
\* Err(UnexpectedEnd); a stream cut short inside a condition that is reached
\* never yields a verdict.
C9_UnexpectedEnd ==
    /\ [][(/\ pc \in {"key", "value"}
           /\ \/ iter = Len(instructions)
              \/ /\ iter < Len(instructions)
                 /\ instructions[iter + 1] \in RawValueTypeBytes
                 /\ Len(instructions) - iter < OperandLen)
            => (pc' = "done" /\ result' = Err("UnexpectedEnd", 0))]_vars
    /\ [][TruncatedHere => result'.kind # "Ok"]_vars

\* C9 witness: the second instruction's value operand had 3 of its 4 value bytes.
C9_Witness ==
    /\ Done
    /\ Len(instructions) = ConditionLen + ConditionLen - 1
    /\ iter = Len(instructions)
    /\ property_key # NoKey
    /\ instructions[ConditionLen + 1 + OperandLen + 1] \in RawValueTypeBytes
    /\ result = Err("UnexpectedEnd", 0)

\* C10: a byte in opcode position that is no member of RawOp makes the match
\* return Err(InvalidOp(byte)) with that byte, whatever follows it and whatever
\* the device has.
C10_InvalidOp ==
    [][(pc = "loop" /\ iter < Len(instructions) /\ instructions[iter + 1] \notin RawOp)
            => (pc' = "done" /\ result' = Err("InvalidOp", instructions[iter + 1]))]_vars

\* C10 witness: the invalid opcode 0 before a whole condition instruction.
C10_Witness ==
    /\ Done
    /\ Len(instructions) = 1 + ConditionLen
    /\ iter = 1
    /\ DOMAIN properties # {}
    /\ result = Err("InvalidOp", 0)

\* Operands are read at the positions where they were encoded.
OperandsAligned ==
    (pc \in {"key", "value"} /\ iter + OperandLen <= Len(instructions)
        /\ instructions[iter + 1] \in 0 .. 5) => HasOperandAt(iter)

\* The steps of match_bind arrive at the result of match_bind as a function.
StepsAgreeWithFunction ==
    Done => result = match_bind_from(instructions, 0, symbol_table, properties)

\* C11: an operand whose type byte is none of the five value types makes the
\* match return Err(InvalidValueType(byte)) with that byte, in key and in
\* value position, having read the type byte only.
C11_InvalidValueType ==
    [][(/\ pc \in {"key", "value"}
        /\ iter < Len(instructions)
        /\ instructions[iter + 1] \notin RawValueTypeBytes)
            => (/\ pc' = "done"
                /\ result' = Err("InvalidValueType", instructions[iter + 1])
                /\ iter' = iter + 1)]_vars

\* C11 witness: the type byte 255 in value position.
C11_Witness ==
    /\ Done
    /\ result = Err("InvalidValueType", 255)
    /\ iter = 1 + OperandLen + 1
    /\ DOMAIN properties # {}

\* C12: a BoolValue operand with a raw value other than 0 and 1 makes the
\* match return Err(InvalidBoolValue(raw)); raw 0 is false and raw 1 is true,
\* as the comparison with a bool property of the device shows.
C12_BoolValue ==
    /\ [][(/\ pc \in {"key", "value"}
           /\ HasOperandAt(iter)
           /\ OperandAt(iter)[1] = RawValueType.BoolValue
           /\ OperandAt(iter)[2] \notin {0, 1})
            => (pc' = "done" /\ result' = Err("InvalidBoolValue", OperandAt(iter)[2]))]_vars
    /\ [][(/\ pc = "value"
           /\ HasOperandAt(iter)
           /\ OperandAt(iter)[1] = RawValueType.BoolValue
           /\ OperandAt(iter)[2] \in {0, 1}
           /\ KeyOf(OperandAt(iter - OperandLen)) \in DOMAIN properties
           /\ properties[KeyOf(OperandAt(iter - OperandLen))].tag = "BoolValue")
            => LET stored == properties[KeyOf(OperandAt(iter - OperandLen))].bool
                   decoded == OperandAt(iter)[2] = 1
                   equal == instructions[iter - OperandLen] = EqualCondition
               IN  IF equal <=> (stored <=> decoded)
                   THEN pc' = "loop" /\ result' = Running
                   ELSE pc' = "done" /\ result' = Ok(FALSE)]_vars

\* C12 witness: raw 0 was compared for equality with a property that is true.
C12_Witness ==
    /\ Done
    /\ result = Ok(FALSE)
    /\ SingleCondition(EqualCondition)
    /\ ValueAt(0) = <<RawValueType.BoolValue, 0>>
    /\ KeyOf(KeyAt(0)) \in DOMAIN properties
    /\ properties[KeyOf(KeyAt(0))] = BoolValue(TRUE)

\* A stream with an unconditional jump instruction and the same stream with
\* that instruction removed.
JumpCases == {<< >>, append_inequal_cond(<<0, 1>>, <<0, 1>>)} \X {0, 48} \X Programs(1)
WithJump(c) == c[1] \o UnconditionalJumpInst(c[2]) \o c[3]
WithoutJump(c) == c[1] \o c[3]

\* C13: an instruction with a recognized opcode other than the two conditions
\* and the abort is skipped together with its operand bytes: the stream has
\* the verdict of the stream without that instruction.
C13_JumpSkipped ==
    (Done /\ Len(instructions) >= Len(UnconditionalJumpInst(0))) =>
        \A c \in JumpCases :
            instructions = WithJump(c)
                => result = match_bind_from(WithoutJump(c), 0, symbol_table, properties)

\* C14: a condition whose key operand materializes to a bool or an enum value
\* makes the match return the error UnimplementedKeyType.
C14_UnimplementedKeyType ==
    (/\ Done
     /\ Len(instructions) >= 1 + OperandLen
     /\ instructions[1] \in {EqualCondition, InequalCondition}
     /\ HasOperandAt(1)
     /\ OperandAt(1)[1] \in {RawValueType.BoolValue, RawValueType.EnumValue}
     /\ Materializes(OperandAt(1)))
        => result = Err("UnimplementedKeyType", 0)

\* C15: the key operand selects the device property NumberKey(n) for a
\* NumberValue n and StringKey(s) for a StringValue or a Key whose index names
\* the string s; a condition has the same result with its key operand tagged
\* Key as with it tagged StringValue.
C15_KeyProjection ==
    /\ [][(pc = "key" /\ HasOperandAt(iter) /\ IsKeyOperand(OperandAt(iter)))
            => (/\ pc' = "value"
                /\ property_key' = KeyOf(OperandAt(iter))
                /\ OperandAt(iter)[1] = RawValueType.NumberValue
                       => property_key' = NumberKey(OperandAt(iter)[2])
                /\ OperandAt(iter)[1] # RawValueType.NumberValue
                       => property_key' = StringKey(symbol_table[OperandAt(iter)[2]]))]_vars
    /\ []((/\ Done
           /\ Len(instructions) = ConditionLen
           /\ instructions[2] = RawValueType.Key)
            => result = match_bind_from(
                   [instructions EXCEPT ![2] = RawValueType.StringValue], 0,
                   symbol_table, properties))

\* C15 witness: a Key operand selected a string-keyed property of the device.
C15_Witness ==
    /\ Done
    /\ result = Ok(TRUE)
    /\ SingleCondition(EqualCondition)
    /\ KeyAt(0)[1] = RawValueType.Key
    /\ property_key = StringKey("nightjar")
    /\ property_key \in DOMAIN properties
    /\ NumberKey(1) \in DOMAIN properties

-----------------------------------------------------------------------------
(* The vocabulary of the V1 properties: the fields of a record are read by *)
(* their bit positions, the instruction is read from the bind program.     *)

\* The number in bits [lo, hi) of a record, bit lo the least significant.
RECURSIVE Field(_, _, _)
Field(raw, lo, hi) == IF lo >= hi THEN 0 ELSE raw[lo + 1] + 2 * Field(raw, lo + 1, hi)

\* The records the two encoders have produced, each with its place in the program.
Encoded ==
    {<<k, records[k]>> : k \in 1 .. Len(records)}
        \cup {<<k, triples[k]>> : k \in 1 .. Len(triples)}

InstructionAt(k) == bind_program[k].instruction
DebugAt(k) == bind_program[k].debug

\* The fields of an instruction as the format's description gives them.
ConditionCode(i) ==
    CASE i.op = "Label" -> 0
      [] i.cond.cond = "Always" -> 0
      [] i.cond.cond = "Equal" -> 1
      [] i.cond.cond = "NotEqual" -> 2
OperationCode(i) ==
    CASE i.op = "Abort" -> 0 [] i.op = "Match" -> 1 [] i.op = "Goto" -> 2 [] i.op = "Label" -> 5
OperandA(i) == IF i.op \in {"Goto", "Label"} THEN i.a ELSE 0
OperandB(i) == IF i.op = "Label" \/ i.cond.cond = "Always" THEN 0 ELSE i.cond.b
ComparisonValue(i) == IF i.op = "Label" \/ i.cond.cond = "Always" THEN 0 ELSE i.cond.v
FitsWidths(i) == OperandA(i) < 2^8 /\ OperandB(i) < 2^16

\* C16: for an instruction whose fields fit their widths the first word is
\* (condition << 28) | (operation << 24) | (operand A << 16) | operand B and
\* the second word is the comparison value, with Always = 0, Equal = 1,
\* NotEqual = 2; Goto(Equal(23, 1234), 42) gives (1<<28)|(2<<24)|(42<<16)|23
\* and 1234.
C16_FirstTwoWords ==
    \A e \in Encoded :
        LET i == InstructionAt(e[1])
        IN  /\ FitsWidths(i) =>
                /\ Field(e[2], 0, 32) =
                       ConditionCode(i) * 2^28 + OperationCode(i) * 2^24
                           + OperandA(i) * 2^16 + OperandB(i)
                /\ Field(e[2], 32, 64) = ComparisonValue(i)
            /\ i = GotoInst(Equal(23, 1234), 42) =>
                /\ Field(e[2], 0, 32) = 1 * 2^28 + 2 * 2^24 + 42 * 2^16 + 23
                /\ Field(e[2], 32, 64) = 1234

\* C16 witness: Goto(Equal(23, 1234), 42) was encoded.
C16_Witness ==
    /\ Len(records) = 1
    /\ InstructionAt(1) = GotoInst(Equal(23, 1234), 42)
    /\ Field(records[1], 0, 32) = 304742423

\* C17 as stated: the line is in bits [64,72), the AST location in bits
\* [72,80) and the extra field in bits [80,96) of the record.
C17_DebugLayoutAsStated ==
    \A e \in Encoded :
        /\ Field(e[2], 64, 72) = DebugAt(e[1]).line % 2^8
        /\ Field(e[2], 72, 80) = DebugAt(e[1]).ast_location % 2^8
        /\ Field(e[2], 80, 96) = DebugAt(e[1]).extra % 2^16

\* C17 amended: the extra field is in bits [64,80), the AST location in bits
\* [80,88) and the line in bits [88,96) of the record: the low half, the third
\* byte and the high byte of the third word.
C17_DebugLayout ==
    \A e \in Encoded :
        /\ Field(e[2], 64, 80) = DebugAt(e[1]).extra % 2^16
        /\ Field(e[2], 80, 88) = DebugAt(e[1]).ast_location % 2^8
        /\ Field(e[2], 88, 96) = DebugAt(e[1]).line % 2^8

\* C17 witness: a record with line 7, AST location 3 and extra 0x1234.
C17_Witness ==
    /\ Len(records) = 1
    /\ DebugAt(1) = [line |-> 7, ast_location |-> 3, extra |-> 4660]
    /\ Field(records[1], 88, 96) = 7
    /\ Field(records[1], 64, 72) = 52

\* The instruction read back from the condition, operation, operand A,
\* operand B and value of a record.
DecodeCondition(raw) ==
    CASE Field(raw, 28, 32) = 0 -> Always
      [] Field(raw, 28, 32) = 1 -> Equal(Field(raw, 0, 16), Field(raw, 32, 64))
      [] Field(raw, 28, 32) = 2 -> NotEqual(Field(raw, 0, 16), Field(raw, 32, 64))
      [] OTHER -> [cond |-> "Invalid", b |-> 0, v |-> 0]
Decode(raw) ==
    CASE Field(raw, 24, 28) = 0 -> AbortInst(DecodeCondition(raw))
      [] Field(raw, 24, 28) = 1 -> MatchInst(DecodeCondition(raw))
      [] Field(raw, 24, 28) = 2 -> GotoInst(DecodeCondition(raw), Field(raw, 16, 24))
      [] Field(raw, 24, 28) = 5 -> LabelInst(Field(raw, 16, 24))
      [] OTHER -> [op |-> "Invalid", cond |-> Always, a |-> 0]

\* C18 as stated: decoding the record of any instruction gives the
\* instruction back, for every key, value, target and label id.
C18_RoundTripAsStated ==
    \A e \in Encoded : Decode(e[2]) = InstructionAt(e[1])

\* C18 amended: decoding the record of an instruction gives the instruction
\* back when its target or label id is below 2^8 and its key below 2^16, and
\* two such instructions with the same first two words are the same.
C18_RoundTrip ==
    /\ \A e \in Encoded :
           FitsWidths(InstructionAt(e[1])) => Decode(e[2]) = InstructionAt(e[1])
    /\ \A e, f \in Encoded :
           (/\ FitsWidths(InstructionAt(e[1]))
            /\ FitsWidths(InstructionAt(f[1]))
            /\ Field(e[2], 0, 32) = Field(f[2], 0, 32)
            /\ Field(e[2], 32, 64) = Field(f[2], 32, 64))
               => InstructionAt(e[1]) = InstructionAt(f[1])

\* C18 witness: two different instructions of one program were encoded and
\* read back.
C18_Witness ==
    /\ Len(records) = 2
    /\ InstructionAt(1) = GotoInst(NotEqual(23, 1234), 42)
    /\ InstructionAt(2) = GotoInst(Equal(23, 1234), 42)
    /\ Decode(records[1]) = InstructionAt(1)
    /\ Decode(records[2]) = InstructionAt(2)

\* C19 as stated: operation 0, 1, 2, 5 for Abort, Match, Goto, Label; operand
\* A is 0 for Abort and Match, the target t for Goto and the id for Label;
\* the condition code, operand B and value are (Always,0,0), (Equal,b,v) or
\* (NotEqual,b,v), and (Always,0,0) for Label; operations 3 and 4 never occur.
C19_PerVariantAsStated ==
    \A e \in Encoded :
        LET i == InstructionAt(e[1])
        IN  /\ Field(e[2], 24, 28) = OperationCode(i)
            /\ Field(e[2], 24, 28) \notin {3, 4}
            /\ Field(e[2], 28, 32) = ConditionCode(i)
            /\ Field(e[2], 16, 24) = OperandA(i)
            /\ Field(e[2], 0, 16) = OperandB(i)
            /\ Field(e[2], 32, 64) = ComparisonValue(i)

\* C19 amended: as stated, with operand A the target or id modulo 2^8 and
\* operand B the key modulo 2^16.
C19_PerVariant ==
    \A e \in Encoded :
        LET i == InstructionAt(e[1])
        IN  /\ Field(e[2], 24, 28) = OperationCode(i)
            /\ Field(e[2], 24, 28) \notin {3, 4}
            /\ Field(e[2], 28, 32) = ConditionCode(i)
            /\ Field(e[2], 16, 24) = OperandA(i) % 2^8
            /\ Field(e[2], 0, 16) = OperandB(i) % 2^16
            /\ Field(e[2], 32, 64) = ComparisonValue(i)

\* C19 witness: a Label with an id above 255 was encoded.
C19_Witness ==
    /\ Len(records) = 1
    /\ InstructionAt(1) = LabelInst(256 + 42)
    /\ Field(records[1], 24, 28) = 5
    /\ Field(records[1], 16, 24) = 42

\* The index of the first ch in t at or after from (Len(t) + 1 or more: none).
RECURSIVE IndexOf(_, _, _)
IndexOf(t, ch, from) ==
    IF from > Len(t) THEN from
    ELSE IF t[from] = ch THEN from ELSE IndexOf(t, ch, from + 1)

\* The triples of a text "{w0,w1,w2},{w0,w1,w2},...", each word as its literal.
RECURSIVE ParseTriples(_)
ParseTriples(t) ==
    IF t = << >> THEN << >>
    ELSE LET close == IndexOf(t, "}", 1)
             body == SubSeq(t, 2, close - 1)
             c1 == IndexOf(body, ",", 1)
             c2 == IndexOf(body, ",", c1 + 1)
         IN  <<<<SubSeq(body, 1, c1 - 1), SubSeq(body, c1 + 1, c2 - 1),
                 SubSeq(body, c2 + 1, Len(body))>>>>
                 \o ParseTriples(SubSeq(t, close + 2, Len(t)))

\* A literal 0x followed by one to eight hexadecimal digits, and the eight
\* nibbles of the u32 it denotes, the most significant first.
IsHexLiteral(lit) ==
    /\ Len(lit) \in 3 .. 10
    /\ lit[1] = "0" /\ lit[2] = "x"
    /\ \A n \in 3 .. Len(lit) : \E d \in 1 .. 16 : HexDigits[d] = lit[n]
HexValue(ch) == CHOOSE n \in 0 .. 15 : HexDigits[n + 1] = ch
LiteralNibbles(lit) ==
    [n \in 1 .. 8 |-> IF n <= 10 - Len(lit) THEN 0 ELSE HexValue(lit[n - (10 - Len(lit)) + 2])]

\* The eight nibbles of word w of the k-th twelve bytes, read little-endian.
BytesNibbles(bytes, k, w) ==
    [n \in 1 .. 8 |->
        LET byte == bytes[12 * (k - 1) + 4 * w + (4 - (n + 1) \div 2) + 1]
        IN  IF n % 2 = 1 THEN byte \div 16 ELSE byte % 16]

\* The length of the text of triples.
RECURSIVE TextLen(_)
TextLen(parsed) ==
    IF parsed = << >> THEN 0
    ELSE Len(Head(parsed)[1]) + Len(Head(parsed)[2]) + Len(Head(parsed)[3]) + 5
             + TextLen(Tail(parsed))

\* C20: encode_to_bytecode_v1 returns 12 bytes for each of the n instructions,
\* bytes [12k, 12k+12) the three words of the k-th record in little-endian
\* order; encode_to_string_v1 returns n triples of hexadecimal literals in
\* program order, the k-th denoting the same three words.
C20_BytesAndText ==
    LET parsed == ParseTriples(text)
    IN  /\ Len(bytecode) = 12 * Len(records)
        /\ \A k \in 1 .. Len(records) : \A w \in 0 .. 2 : \A j \in 0 .. 3 :
               bytecode[12 * (k - 1) + 4 * w + j + 1]
                   = Field(records[k], 32 * w + 8 * j, 32 * w + 8 * j + 8)
        /\ Len(parsed) = Len(triples)
        /\ Len(text) = TextLen(parsed)
        /\ \A k \in 1 .. Len(triples) : \A w \in 0 .. 2 :
               /\ IsHexLiteral(parsed[k][w + 1])
               /\ \A n \in 1 .. 8 :
                      LiteralNibbles(parsed[k][w + 1])[n]
                          = Field(triples[k], 32 * w + 4 * (8 - n), 32 * w + 4 * (8 - n) + 4)
        /\ (Len(records) = Len(bind_program) /\ Len(triples) = Len(bind_program)) =>
               /\ Len(bytecode) = 12 * Len(bind_program)
               /\ Len(parsed) = Len(bind_program)
               /\ \A k \in 1 .. Len(bind_program) : \A w \in 0 .. 2 :
                      LiteralNibbles(parsed[k][w + 1]) = BytesNibbles(bytecode, k, w)

\* C20 witness: both encoders have returned for a program of two instructions.
C20_Witness ==
    /\ Len(bind_program) = 2
    /\ Len(bytecode) = 24
    /\ Len(ParseTriples(text)) = 2
    /\ bytecode[12] = 7
    /\ bytecode[13] = 0
    /\ SubSeq(text, 1, 12) = <<"{", "0", "x", "1", "2", "2", "a", "0", "0", "1", "7", ",">>

-----------------------------------------------------------------------------
(* The evaluation as a whole: termination, frame, interleaving, order.     *)

\* The cursor never moves backwards and stays inside the stream, every step
\* that does not return advances it, an opcode step reads one byte, a step is
\* possible until match_bind has returned and none after.
CursorAdvances ==
    /\ [][iter' >= iter /\ iter' <= Len(instructions)]_vars
    /\ [][pc' # "done" => iter' > iter]_vars
    /\ [][(pc = "loop" /\ iter < Len(instructions)) => iter' = iter + 1]_vars
    /\ [][pc # "done"]_vars
    /\ [](~Done => ENABLED <<Next>>_vars)

\* C21: the evaluation of a finite stream terminates: the cursor strictly
\* advances and never moves backwards, every byte is read at most once, and
\* an Ok or an Err is returned after at most as many opcode steps as the
\* stream has bytes.
C21_Terminates ==
    /\ CursorAdvances
    /\ [](Done => result.kind \in {"Ok", "Err"})

\* C22: no step of an evaluation, whatever its outcome, changes the
\* instruction bytes, the symbol table or the device property table.
C22_InputsUnchanged ==
    [][/\ instructions' = instructions
       /\ symbol_table' = symbol_table
       /\ properties' = properties]_vars

\* C22 witness: two conditions were evaluated against a device with two
\* properties and a symbol table with two entries.
C22_Witness ==
    /\ Done
    /\ result = Ok(TRUE)
    /\ iter = ConditionLen + ConditionLen
    /\ DOMAIN properties = DeviceKeys
    /\ DOMAIN symbol_table = {1, 2}

\* The matcher of the variables as a value.
ThisMatcher ==
    [properties |-> properties, iter |-> iter, pc |-> pc, op_byte |-> op_byte,
     condition |-> condition, property_key |-> property_key, result |-> result]

\* The steps of match_bind on the variables are the steps of match_bind_step.
StepsAgreeWithStep ==
    [][ThisMatcher' # ThisMatcher
        => ThisMatcher' = match_bind_step(instructions, symbol_table, ThisMatcher)]_vars

\* C23: with the steps of two evaluations over one program and symbol table
\* interleaved in any order, for one device or for two, each evaluation
\* returns the result it returns alone: the value of match_bind as a function
\* of the instruction bytes, the symbol table and its property table.
C23_Interleaved ==
    /\ Done => result = match_bind_from(instructions, 0, symbol_table, properties)
    /\ peer.pc = "done"
           => peer.result = match_bind_from(instructions, 0, symbol_table, peer.properties)
    /\ (Done /\ peer.pc = "done" /\ peer.properties = properties) => peer.result = result

\* C23 witness: both evaluations have returned, with different results for
\* their two devices, each having read the whole condition.
C23_Witness ==
    /\ Done
    /\ peer.pc = "done"
    /\ result = Ok(TRUE)
    /\ peer.result = Ok(FALSE)
    /\ iter = ConditionLen
    /\ peer.iter = ConditionLen
    /\ symbol_table # << >>

\* C24: the value operand is decoded before the device table is consulted:
\* its decode error (InvalidValueType, InvalidBoolValue,
\* MissingEntryInSymbolTable, UnexpectedEnd) is returned also when the key of
\* the condition is absent from the device, for Equal and for Inequal.
C24_ValueDecodedFirst ==
    [][(/\ pc = "value"
        /\ property_key \notin DOMAIN properties
        /\ OperandError(iter) # Running)
            => (pc' = "done" /\ result' = OperandError(iter))]_vars

\* C24 witness: an Inequal condition on an absent key returned the missing
\* symbol of its value operand.
C24_Witness ==
    /\ Done
    /\ result = Err("MissingEntryInSymbolTable", 2)
    /\ condition = "Inequal"
    /\ property_key = NumberKey(1)
    /\ property_key \notin DOMAIN properties
    /\ iter = ConditionLen

\* What may follow the first failing instruction: nothing, an unrecognized
\* opcode, a condition with an invalid operand, a condition cut short.
Remainders ==
    {<< >>, <<0>>, <<255>>, append_equal_cond(<<5, 1>>, <<0, 1>>),
     append_equal_cond(<<0, 1>>, <<3, 2>>), <<EqualCondition, 0, 1>>, <<InequalCondition>>}

\* C25: the step that returns Ok(false) reads to the end of the failing
\* condition or of the Abort opcode and nothing is read after it, so every
\* stream with the same bytes up to there returns Ok(false), whatever
\* follows.
C25_ShortCircuit ==
    /\ [][(result' = Ok(FALSE) /\ result # Ok(FALSE))
            => \/ pc = "loop" /\ instructions[iter + 1] = Abort /\ iter' = iter + 1
               \/ pc = "value" /\ iter' = iter + OperandLen]_vars
    /\ [][pc # "done"]_vars
    /\ []((Done /\ result = Ok(FALSE))
            => \A tail \in Remainders :
                   match_bind_from(SubSeq(instructions, 1, iter) \o tail, 0,
                                   symbol_table, properties) = Ok(FALSE))

\* C25 witness: a failed condition followed by an unrecognized opcode
\* returned Ok(false) at the end of the condition.
C25_Witness ==
    /\ Done
    /\ result = Ok(FALSE)
    /\ iter = ConditionLen
    /\ Len(instructions) = ConditionLen + 1
    /\ instructions[ConditionLen + 1] = 255

\* C26: errors are reported in stream order: an error of the key operand is
\* returned whatever the value operand holds; an invalid type byte is
\* InvalidValueType also when fewer than 4 bytes follow it; a missing symbol
\* index is returned after the 4 value bytes were read, a symbol operand cut
\* short is UnexpectedEnd; MismatchValueTypes is returned only when both
\* operands decoded without error.
C26_ErrorOrder ==
    /\ [][(pc = "key" /\ OperandError(iter) # Running)
            => (pc' = "done" /\ result' = OperandError(iter))]_vars
    /\ [][(/\ pc \in {"key", "value"}
           /\ iter < Len(instructions)
           /\ instructions[iter + 1] \notin RawValueTypeBytes
           /\ Len(instructions) - iter < OperandLen)
            => result' = Err("InvalidValueType", instructions[iter + 1])]_vars
    /\ [][(result'.err = "MissingEntryInSymbolTable" /\ result.kind = "Running")
            => (/\ iter' = iter + OperandLen
                /\ HasOperandAt(iter)
                /\ IsSymbolOperand(OperandAt(iter))
                /\ result'.arg = OperandAt(iter)[2])]_vars
    /\ [][(/\ pc \in {"key", "value"}
           /\ iter < Len(instructions)
           /\ instructions[iter + 1] \in {RawValueType.Key, RawValueType.StringValue}
           /\ Len(instructions) - iter < OperandLen)
            => result' = Err("UnexpectedEnd", 0)]_vars
    /\ [][(result'.err = "MismatchValueTypes" /\ result.kind = "Running")
            => (/\ pc = "value"
                /\ OperandError(iter) = Running
                /\ HasOperandAt(iter - OperandLen)
                /\ IsKeyOperand(OperandAt(iter - OperandLen)))]_vars

\* C26 witness: the invalid type byte 5 of a value operand with three bytes
\* after it was returned as InvalidValueType.
C26_Witness ==
    /\ Done
    /\ result = Err("InvalidValueType", 5)
    /\ Len(instructions) = ConditionLen - 1
    /\ iter = 1 + OperandLen + 1
    /\ condition = "Inequal"

\* C27: an EnumValue operand is a marker without payload whatever its raw
\* value: against a device property that holds an enum value an Equal
\* condition is satisfied and an Inequal condition fails, and the raw value
\* is neither looked up in the symbol table nor validated.
C27_EnumValue ==
    /\ [][(/\ pc = "value"
           /\ HasOperandAt(iter)
           /\ OperandAt(iter)[1] = RawValueType.EnumValue
           /\ property_key \in DOMAIN properties
           /\ properties[property_key].tag = "EnumValue")
            => IF instructions[iter - OperandLen] = EqualCondition
               THEN pc' = "loop" /\ result' = Running
               ELSE pc' = "done" /\ result' = Ok(FALSE)]_vars
    /\ [][(/\ pc = "value"
           /\ HasOperandAt(iter)
           /\ OperandAt(iter)[1] = RawValueType.EnumValue)
            => (/\ iter' = iter + OperandLen
                /\ result'.err \in {"-", "MismatchValueTypes"})]_vars

\* C27 witness: an Inequal condition with the enum operand 2000 failed
\* against an enum property, with an empty symbol table.
C27_Witness ==
    /\ Done
    /\ result = Ok(FALSE)
    /\ SingleCondition(InequalCondition)
    /\ ValueAt(0) = <<RawValueType.EnumValue, 2000>>
    /\ symbol_table = << >>
    /\ property_key \in DOMAIN properties
    /\ properties[property_key] = EnumValue

\* C28: a NumberValue operand is the zero-extension of its u32: the high
\* half of every decoded number is 0, so a device property stored under a
\* number key of 2^32 or more is never selected, and against a device number
\* of 2^32 or more an Equal condition fails and an Inequal one is satisfied,
\* also when the low halves agree.
C28_ZeroExtension ==
    /\ [](pc = "value" => (property_key.high = 0 /\ property_key.num >= 0))
    /\ [](\A k \in DOMAIN properties : k.high >= 1 => property_key # k)
    /\ [][(/\ pc = "value"
           /\ Len(instructions) - iter >= OperandLen
           /\ instructions[iter + 1] = RawValueType.NumberValue
           /\ property_key \in DOMAIN properties
           /\ properties[property_key].high >= 1)
            => IF condition = "Equal"
               THEN pc' = "done" /\ result' = Ok(FALSE)
               ELSE pc' = "loop" /\ result' = Running]_vars
    /\ [][(/\ pc = "value"
           /\ Len(instructions) - iter >= OperandLen
           /\ instructions[iter + 1] = RawValueType.NumberValue
           /\ property_key \in DOMAIN properties
           /\ properties[property_key].high = 0)
            => LET same == properties[property_key].num = u32_from_le_bytes(instructions, iter + 1)
               IN  IF (condition = "Equal") <=> same
                   THEN pc' = "loop" /\ result' = Running
                   ELSE pc' = "done" /\ result' = Ok(FALSE)]_vars

\* C28 witness: Equal with the operand 2000 failed against the device number
\* 2^32 + 2000, with a property under the key 2^32 + 1 in the device.
C28_Witness ==
    /\ Done
    /\ result = Ok(FALSE)
    /\ condition = "Equal"
    /\ iter = ConditionLen
    /\ u32_from_le_bytes(instructions, 1 + OperandLen + 1) = 2000
    /\ property_key = NumberKey(1)
    /\ DOMAIN properties = WideDeviceKeys
    /\ properties[NumberKey(1)] = NumberValue64(1, 2000)

-----------------------------------------------------------------------------
(* The setters and the debug metadata of the V1 record.                    *)

\* The bits [lo, hi) of the eight fields of a record.
FieldRanges ==
    {<<28, 32>>, <<24, 28>>, <<16, 24>>, <<0, 16>>, <<32, 64>>, <<88, 96>>, <<80, 88>>,
     <<64, 80>>}

\* Bit i of the u32 n, for n below 2^31.
ArgumentBit(n, i) == IF i >= 31 THEN 0 ELSE (n \div 2^i) % 2

\* The record after differs from before in the bits [lo, hi) at most, and
\* these are the low hi - lo bits of n.
OnlyFieldSet(after, before, lo, hi, n) ==
    \A i \in 0 .. 95 :
        after[i + 1] = IF lo <= i /\ i < hi THEN ArgumentBit(n, i - lo) ELSE before[i + 1]

\* C29: a setter of a RawInstruction writes the low bits of its argument, as
\* many as its field is wide, into its field and leaves every other bit of
\* the record as it was, after any calls before it and for arguments wider
\* than the field; a step changes the bits of one field at most.
C29_SettersFrame ==
    /\ [][\A n \in SetterArguments :
            /\ packed' = set_condition(packed, n) => OnlyFieldSet(packed', packed, 28, 32, n)
            /\ packed' = set_operation(packed, n) => OnlyFieldSet(packed', packed, 24, 28, n)
            /\ packed' = set_parameter_a(packed, n) => OnlyFieldSet(packed', packed, 16, 24, n)
            /\ packed' = set_parameter_b(packed, n) => OnlyFieldSet(packed', packed, 0, 16, n)
            /\ packed' = set_value(packed, n) => OnlyFieldSet(packed', packed, 32, 64, n)
            /\ packed' = set_line(packed, n) => OnlyFieldSet(packed', packed, 88, 96, n)
            /\ packed' = set_ast_location(packed, n)
                   => OnlyFieldSet(packed', packed, 80, 88, n)
            /\ packed' = set_extra(packed, n) => OnlyFieldSet(packed', packed, 64, 80, n)]_vars
    /\ [][\E f \in FieldRanges :
            \A i \in 0 .. 95 :
                packed'[i + 1] # packed[i + 1] => (f[1] <= i /\ i < f[2])]_vars

\* C29 witness: operand A holds 42 of the argument 65834, between an
\* operation field of 15 and an operand B of 65535, under a condition of 0.
C29_Witness ==
    /\ Len(packed) = 96
    /\ Field(packed, 16, 24) = 42
    /\ Field(packed, 24, 28) = 15
    /\ Field(packed, 0, 16) = 65535
    /\ Field(packed, 28, 32) = 0
    /\ Field(packed, 64, 80) = 298

\* C30: the debug metadata has no effect on the first two words: the bits
\* [0, 64) of the record of encode_instruction are those of
\* RawInstruction::from of the instruction, whose third word is 0, so two
\* records of one instruction differ in the third word at most.
C30_DebugApart ==
    /\ \A e \in Encoded :
           /\ \A i \in 1 .. 64 : e[2][i] = From(InstructionAt(e[1]))[i]
           /\ \A i \in 65 .. 96 : From(InstructionAt(e[1]))[i] = 0
    /\ \A e, f \in Encoded :
           InstructionAt(e[1]) = InstructionAt(f[1])
               => \A i \in 1 .. 64 : e[2][i] = f[2][i]

\* C30 witness: one instruction was encoded twice in a program, with debug
\* metadata and without, and the third words differ.
C30_Witness ==
    /\ Len(records) = 2
    /\ InstructionAt(1) = InstructionAt(2)
    /\ DebugAt(1) = [line |-> 7, ast_location |-> 3, extra |-> 4660]
    /\ DebugAt(2) = [line |-> 0, ast_location |-> 0, extra |-> 0]
    /\ Field(records[1], 88, 96) = 7
    /\ Field(records[2], 88, 96) = 0
    /\ Field(records[1], 0, 32) = Field(records[2], 0, 32)

====
